---------------------------- MODULE Spec2Model ----------------------------
(***************************************************************************)
(* PID tuning engine: plant construction (src/src/transfer_functions.py),  *)
(* the four tuning rules (src/src/tuning_rules.py), the analyses of        *)
(* src/src/performance_analysis.py (controller, step response, integral    *)
(* indices, stability margins) and the pipeline of src/app.py.             *)
(*                                                                         *)
(* Numbers.  The program computes on Python floats.  Here a finite real is *)
(* an exact rational <<n, d>> in lowest terms with d > 0, so the formulas  *)
(* are checked without rounding; IEEE overflow, underflow and NaN inputs   *)
(* are outside the model.  A division whose divisor is zero raises         *)
(* ZeroDivisionError, as Python's float division does.                     *)
(***************************************************************************)
EXTENDS Integers, Sequences, FiniteSets, TLC

VARIABLES fn, args, out

vars == <<fn, args, out>>

(***************************************************************************)
(* Bounds of the input sets.                                               *)
(***************************************************************************)
MaxNum == 4
MaxDen == 2
MaxCoef == 3
MaxGain == 2
MaxLen == 3
RampSamples == 100
Samples == 1500
DefaultHorizon == 50
TimeConstants == 10

(***************************************************************************)
(* Exact rational arithmetic.                                              *)
(***************************************************************************)
Abs(x) == IF x < 0 THEN -x ELSE x

RECURSIVE GCD(_, _)
GCD(a, b) == IF b = 0 THEN a ELSE GCD(b, a % b)

Rat(n, d) ==
    LET s == IF d < 0 THEN -1 ELSE 1
        g == GCD(Abs(n), Abs(d))
    IN  <<(s * n) \div g, (s * d) \div g>>

FromInt(n) == <<n, 1>>

RAdd(a, b) ==
    LET l == (a[2] \div GCD(a[2], b[2])) * b[2]
    IN  Rat(a[1] * (l \div a[2]) + b[1] * (l \div b[2]), l)

RNeg(a) == <<-a[1], a[2]>>

RSub(a, b) == RAdd(a, RNeg(b))

RMul(a, b) ==
    LET g1 == GCD(Abs(a[1]), b[2])
        g2 == GCD(Abs(b[1]), a[2])
    IN  Rat((a[1] \div g1) * (b[1] \div g2), (a[2] \div g2) * (b[2] \div g1))

\* a / b for b /= 0 (every use is guarded by IsZero(b) -> ZeroDivisionError)
RDiv(a, b) == RMul(a, Rat(b[2], b[1]))

RAbs(a) == <<Abs(a[1]), a[2]>>

IsZero(a) == a[1] = 0
RLt(a, b) == a[1] * b[2] < b[1] * a[2]
RLe(a, b) == a[1] * b[2] <= b[1] * a[2]
RGt(a, b) == RLt(b, a)

Zero == FromInt(0)
One  == FromInt(1)

\* The finite reals the calls are tried on: n/d, |n| <= MaxNum, 1 <= d <= MaxDen.
Vals == { Rat(n, d) : n \in -MaxNum..MaxNum, d \in 1..MaxDen }

(***************************************************************************)
(* Outcomes of a call: a returned value, or a raised exception.            *)
(***************************************************************************)
Return(v) == [tag |-> "return", value |-> v]
Raise(k, m) == [tag |-> "raise", kind |-> k, msg |-> m]

ValueError(m) == Raise("ValueError", m)
ZeroDivisionError == Raise("ZeroDivisionError", "float division by zero")

(***************************************************************************)
(* Rational transfer-function models: coefficient sequences, highest power *)
(* first; the product of two models multiplies numerators and              *)
(* denominators.                                                           *)
(***************************************************************************)
RECURSIVE ConvSum(_, _, _, _)
ConvSum(p, q, k, i) ==
    IF i > Len(p) THEN Zero
    ELSE LET j == k + 1 - i
             t == IF j >= 1 /\ j <= Len(q) THEN RMul(p[i], q[j]) ELSE Zero
         IN  RAdd(t, ConvSum(p, q, k, i + 1))

RECURSIVE ConvFrom(_, _, _)
ConvFrom(p, q, k) ==
    IF k > Len(p) + Len(q) - 1 THEN <<>>
    ELSE <<ConvSum(p, q, k, 1)>> \o ConvFrom(p, q, k + 1)

polymul(p, q) == ConvFrom(p, q, 1)

tf(num, den) == [num |-> num, den |-> den]

tf_mul(g, h) == tf(polymul(g.num, h.num), polymul(g.den, h.den))

\* ct.pade(theta, 1): (1 - theta*s/2)/(1 + theta*s/2), denominator made monic.
pade(theta) ==
    LET c == RDiv(FromInt(2), theta)
    IN  tf(<<FromInt(-1), c>>, <<One, c>>)

dead_time_tf(theta) ==
    IF RGt(theta, Zero) THEN pade(theta) ELSE tf(<<One>>, <<One>>)

(***************************************************************************)
(* Plant construction.                                                     *)
(***************************************************************************)
\* Mutant: tau = 0 slips through the first check.
FirstOrderTransferFunction_tau0(Kp, tau, theta) ==
    IF RLt(tau, Zero) THEN ValueError("Time constant (tau) must be positive.")
    ELSE IF RLt(theta, Zero) THEN ValueError("Dead time (theta) cannot be negative.")
    ELSE Return([Kp |-> Kp, tau |-> tau, theta |-> theta,
                 tf_model |-> tf_mul(tf(<<Kp>>, <<tau, One>>), dead_time_tf(theta))])

FirstOrderTransferFunction(Kp, tau, theta) ==
    IF RLe(tau, Zero) THEN ValueError("Time constant (tau) must be positive.")
    ELSE IF RLt(theta, Zero) THEN ValueError("Dead time (theta) cannot be negative.")
    ELSE Return([Kp |-> Kp, tau |-> tau, theta |-> theta,
                 tf_model |-> tf_mul(tf(<<Kp>>, <<tau, One>>), dead_time_tf(theta))])

SecondOrderTransferFunction(Kp, omega_n, zeta, theta) ==
    IF RLe(omega_n, Zero) THEN ValueError("Natural frequency (omega_n) must be positive.")
    ELSE IF RLe(zeta, Zero)
        THEN ValueError("Damping ratio (zeta) must be positive for a stable system.")
    ELSE IF RLt(theta, Zero) THEN ValueError("Dead time (theta) cannot be negative.")
    ELSE Return([Kp |-> Kp, omega_n |-> omega_n, zeta |-> zeta, theta |-> theta,
                 tf_model |->
                    tf_mul(tf(<<RMul(Kp, RMul(omega_n, omega_n))>>,
                              <<One, RMul(FromInt(2), RMul(zeta, omega_n)),
                                RMul(omega_n, omega_n)>>),
                           dead_time_tf(theta))])

(***************************************************************************)
(* Tuning rules on FOPDT parameters.                                       *)
(***************************************************************************)
\* Convert to standard PID form: Kp = kc, Ki = kc / ti, Kd = kc * td.
pid_form(kc, ti, td) ==
    IF IsZero(ti) THEN ZeroDivisionError
    ELSE Return([Kp |-> kc, Ki |-> RDiv(kc, ti), Kd |-> RMul(kc, td)])

\* Mutant: the dead-time check is made before the gain check.
ziegler_nichols_open_loop_swapped(k_p, tau, theta) ==
    IF RLe(theta, Zero)
        THEN ValueError("Ziegler-Nichols open-loop method is not applicable for systems with no dead time (theta <= 0).")
    ELSE IF IsZero(k_p) THEN ValueError("Process gain (k_p) cannot be zero.")
    ELSE LET kc == RDiv(RMul(Rat(12, 10), tau), RMul(k_p, theta))
         IN  pid_form(kc, RMul(FromInt(2), theta), RMul(Rat(5, 10), theta))

\* Mutant: Ti = theta instead of 2 * theta.
ziegler_nichols_open_loop_ti(k_p, tau, theta) ==
    IF IsZero(k_p) THEN ValueError("Process gain (k_p) cannot be zero.")
    ELSE IF RLe(theta, Zero)
        THEN ValueError("Ziegler-Nichols open-loop method is not applicable for systems with no dead time (theta <= 0).")
    ELSE LET kc == RDiv(RMul(Rat(12, 10), tau), RMul(k_p, theta))
         IN  pid_form(kc, theta, RMul(Rat(5, 10), theta))

\* Mutant: the inapplicable rule is reported with an exception kind of its own.
ziegler_nichols_open_loop_kind(k_p, tau, theta) ==
    IF IsZero(k_p) THEN ValueError("Process gain (k_p) cannot be zero.")
    ELSE IF RLe(theta, Zero)
        THEN Raise("NotImplementedError", "Ziegler-Nichols open-loop method is not applicable for systems with no dead time (theta <= 0).")
    ELSE LET kc == RDiv(RMul(Rat(12, 10), tau), RMul(k_p, theta))
         IN  pid_form(kc, RMul(FromInt(2), theta), RMul(Rat(5, 10), theta))

ziegler_nichols_open_loop(k_p, tau, theta) ==
    IF IsZero(k_p) THEN ValueError("Process gain (k_p) cannot be zero.")
    ELSE IF RLe(theta, Zero)
        THEN ValueError("Ziegler-Nichols open-loop method is not applicable for systems with no dead time (theta <= 0).")
    ELSE IF IsZero(RMul(k_p, theta)) THEN ZeroDivisionError
    ELSE LET kc == RDiv(RMul(Rat(12, 10), tau), RMul(k_p, theta))
             ti == RMul(FromInt(2), theta)
             td == RMul(Rat(5, 10), theta)
         IN  pid_form(kc, ti, td)

\* Mutant: 4/3 evaluated as an integer division (4 // 3 = 1).
cohen_coon_intdiv(k_p, tau, theta) ==
    IF IsZero(k_p) THEN ValueError("Process gain (k_p) cannot be zero.")
    ELSE IF RLe(theta, Zero)
        THEN ValueError("Cohen-Coon method is not applicable for systems with no dead time (theta <= 0).")
    ELSE LET L == theta
             T == tau
             K == k_p
         IN  IF IsZero(RMul(K, L)) \/ IsZero(RMul(FromInt(4), T))
                THEN ZeroDivisionError
             ELSE IF IsZero(RAdd(RMul(FromInt(13), T), RMul(FromInt(8), L)))
                THEN ZeroDivisionError
             ELSE IF IsZero(RAdd(RMul(FromInt(11), T), RMul(FromInt(2), L)))
                THEN ZeroDivisionError
             ELSE LET kc == RMul(RDiv(T, RMul(K, L)),
                                 RAdd(One, RDiv(L, RMul(FromInt(4), T))))
                      ti == RMul(L, RDiv(RAdd(RMul(FromInt(32), T), RMul(FromInt(6), L)),
                                         RAdd(RMul(FromInt(13), T), RMul(FromInt(8), L))))
                      td == RMul(L, RDiv(RMul(FromInt(4), T),
                                         RAdd(RMul(FromInt(11), T), RMul(FromInt(2), L))))
                  IN  pid_form(kc, ti, td)

cohen_coon(k_p, tau, theta) ==
    IF IsZero(k_p) THEN ValueError("Process gain (k_p) cannot be zero.")
    ELSE IF RLe(theta, Zero)
        THEN ValueError("Cohen-Coon method is not applicable for systems with no dead time (theta <= 0).")
    ELSE LET L == theta
             T == tau
             K == k_p
         IN  IF IsZero(RMul(K, L)) \/ IsZero(RMul(FromInt(4), T))
                THEN ZeroDivisionError
             ELSE IF IsZero(RAdd(RMul(FromInt(13), T), RMul(FromInt(8), L)))
                THEN ZeroDivisionError
             ELSE IF IsZero(RAdd(RMul(FromInt(11), T), RMul(FromInt(2), L)))
                THEN ZeroDivisionError
             ELSE LET kc == RMul(RDiv(T, RMul(K, L)),
                                 RAdd(Rat(4, 3), RDiv(L, RMul(FromInt(4), T))))
                      ti == RMul(L, RDiv(RAdd(RMul(FromInt(32), T), RMul(FromInt(6), L)),
                                         RAdd(RMul(FromInt(13), T), RMul(FromInt(8), L))))
                      td == RMul(L, RDiv(RMul(FromInt(4), T),
                                         RAdd(RMul(FromInt(11), T), RMul(FromInt(2), L))))
                  IN  pid_form(kc, ti, td)

\* Mutant: imc refuses a plant without dead time, as the open-loop rules do.
imc_needs_dead_time(k_p, tau, theta, tau_c) ==
    IF IsZero(k_p) THEN ValueError("Process gain (k_p) cannot be zero.")
    ELSE IF RLe(tau_c, Zero)
        THEN ValueError("Closed-loop time constant (tau_c) must be positive.")
    ELSE IF RLe(theta, Zero)
        THEN ValueError("IMC method is not applicable for systems with no dead time (theta <= 0).")
    ELSE LET half == Rat(5, 10)
             kc == RDiv(RMul(RDiv(One, k_p), RAdd(tau, RMul(half, theta))),
                        RAdd(tau_c, RMul(half, theta)))
             ti == RAdd(tau, RMul(half, theta))
             td == RDiv(RMul(tau, theta), RAdd(RMul(FromInt(2), tau), theta))
         IN  Return([Kp |-> kc, Ki |-> RDiv(kc, ti), Kd |-> RMul(kc, td)])

imc(k_p, tau, theta, tau_c) ==
    IF IsZero(k_p) THEN ValueError("Process gain (k_p) cannot be zero.")
    ELSE IF RLe(tau_c, Zero)
        THEN ValueError("Closed-loop time constant (tau_c) must be positive.")
    ELSE LET K == k_p
             T == tau
             L == theta
             half == Rat(5, 10)
         IN  IF IsZero(RAdd(tau_c, RMul(half, L))) THEN ZeroDivisionError
             ELSE LET kc == RDiv(RMul(RDiv(One, K), RAdd(T, RMul(half, L))),
                                 RAdd(tau_c, RMul(half, L)))
                      ti == RAdd(T, RMul(half, L))
                      td == IF ~IsZero(RAdd(RMul(FromInt(2), T), L))
                                THEN RDiv(RMul(T, L), RAdd(RMul(FromInt(2), T), L))
                                ELSE Zero
                  IN  Return([Kp |-> kc,
                              Ki |-> IF ~IsZero(ti) THEN RDiv(kc, ti) ELSE Zero,
                              Kd |-> RMul(kc, td)])

(***************************************************************************)
(* Ziegler-Nichols closed loop.  Its numbers involve pi and the square     *)
(* root of the crossover frequency's square, so a value here is            *)
(*     sgn * sqrt(sq) * pi^pi                                              *)
(* with sq a rational; sq = 1/0 stands for infinity and 0/0 for NaN.       *)
(***************************************************************************)
Sign(n) == IF n > 0 THEN 1 ELSE IF n < 0 THEN -1 ELSE 0

Surd(sgn, sq, k) ==
    IF sgn = 0 \/ (sq[1] = 0 /\ sq[2] /= 0) THEN [sgn |-> 0, sq |-> Zero, pi |-> 0]
    ELSE [sgn |-> sgn, sq |-> sq, pi |-> k]

FromRat(r) == Surd(Sign(r[1]), RMul(r, r), 0)
Sqrt(r) == Surd(Sign(r[1]), r, 0)
np_pi == Surd(1, One, 1)
np_inf == [sgn |-> 1, sq |-> <<1, 0>>, pi |-> 0]
np_nan == [sgn |-> 0, sq |-> <<0, 0>>, pi |-> 0]

np_isinf(a) == a.sq[2] = 0 /\ a.sq[1] /= 0
SIsZero(a) == a.sgn = 0 /\ a.sq[2] /= 0
SLeZero(a) == a.sq[2] /= 0 /\ a.sgn <= 0

\* products and quotients of finite values
SMul(a, b) == Surd(a.sgn * b.sgn, RMul(a.sq, b.sq), a.pi + b.pi)
SDiv(a, b) == Surd(a.sgn * b.sgn, RDiv(a.sq, b.sq), a.pi - b.pi)

(***************************************************************************)
(* ct.margin(tf_model): the gain margin gm and the phase-crossover         *)
(* frequency wg.  For a plant K/(a3 s^3 + a2 s^2 + a1 s + a0) with K > 0   *)
(* and positive coefficients, den(jw) = (a0 - a2 w^2) + j w (a1 - a3 w^2), *)
(* so the phase is -180 degrees only at w^2 = a1/a3 (a3 /= 0) and only if  *)
(* a0 - a2 w^2 < 0; there gm = 1/|G(jw)| = (a2 w^2 - a0)/K.  Without such  *)
(* a crossover gm = inf and wg = nan.  The plants with a Pade dead time    *)
(* are treated below; for any other plant the result of the library's      *)
(* sweep is left open: any pair of MarginVals.                             *)
(***************************************************************************)
Coef(den, k) == IF Len(den) > k THEN den[Len(den) - k] ELSE Zero

AllPole(tf_model) ==
    /\ Len(tf_model.num) = 1 /\ RGt(tf_model.num[1], Zero)
    /\ Len(tf_model.den) \in 2..4
    /\ \A i \in 1..Len(tf_model.den) : RGt(tf_model.den[i], Zero)

ReAtCrossover(den) ==
    RSub(Coef(den, 0), RMul(Coef(den, 2), RDiv(Coef(den, 1), Coef(den, 3))))

MarginVals ==
    { [gm |-> FromRat(g), wg |-> w] :
        g \in Vals, w \in {FromRat(v) : v \in Vals} \cup {Sqrt(FromInt(3))} }
    \cup { [gm |-> np_inf, wg |-> np_nan] }

\* A model (b1 s + b0)/(a3 s^3 + a2 s^2 + a1 s + a0) with b1 < 0 < b0 and
\* positive a's, as a second-order plant with a Pade dead time is.  With
\* N = b0 + j b1 w and D = (a0 - a2 w^2) + j w (a1 - a3 w^2), G(jw) is real
\* only where Im(N conj(D)) = 0: at w^2 = (b0 a1 - b1 a0)/(b0 a3 - b1 a2) > 0.
\* It is a phase crossover if Re(N conj(D)) < 0 there, and then
\* gm = 1/|G| = |D|^2 / -Re(N conj(D)).
PadeLike(tf_model) ==
    /\ Len(tf_model.num) = 2
    /\ RLt(tf_model.num[1], Zero) /\ RGt(tf_model.num[2], Zero)
    /\ Len(tf_model.den) = 4
    /\ \A i \in 1..4 : RGt(tf_model.den[i], Zero)

CrossoverSq(g) ==
    RDiv(RSub(RMul(g.num[2], Coef(g.den, 1)), RMul(g.num[1], Coef(g.den, 0))),
         RSub(RMul(g.num[2], Coef(g.den, 3)), RMul(g.num[1], Coef(g.den, 2))))

ReDen(g, w2) == RSub(Coef(g.den, 0), RMul(Coef(g.den, 2), w2))
ImDenOverW(g, w2) == RSub(Coef(g.den, 1), RMul(Coef(g.den, 3), w2))

\* Re(N conj(D)) and |D|^2 at w^2 = w2
ReNumConjDen(g, w2) ==
    RAdd(RMul(g.num[2], ReDen(g, w2)), RMul(g.num[1], RMul(w2, ImDenOverW(g, w2))))
DenMagSq(g, w2) ==
    RAdd(RMul(ReDen(g, w2), ReDen(g, w2)),
         RMul(w2, RMul(ImDenOverW(g, w2), ImDenOverW(g, w2))))

margin(tf_model) ==
    IF AllPole(tf_model) /\ Len(tf_model.den) < 4
        THEN { [gm |-> np_inf, wg |-> np_nan] }
    ELSE IF AllPole(tf_model) /\ ~IsZero(ReAtCrossover(tf_model.den))
        THEN IF RLt(ReAtCrossover(tf_model.den), Zero)
                THEN { [gm |-> FromRat(RDiv(RNeg(ReAtCrossover(tf_model.den)),
                                            tf_model.num[1])),
                        wg |-> Sqrt(RDiv(Coef(tf_model.den, 1), Coef(tf_model.den, 3)))] }
                ELSE { [gm |-> np_inf, wg |-> np_nan] }
    ELSE IF PadeLike(tf_model)
                /\ ~IsZero(ReNumConjDen(tf_model, CrossoverSq(tf_model)))
        THEN IF RLt(ReNumConjDen(tf_model, CrossoverSq(tf_model)), Zero)
                THEN { [gm |-> FromRat(RDiv(DenMagSq(tf_model, CrossoverSq(tf_model)),
                                            RNeg(ReNumConjDen(tf_model,
                                                              CrossoverSq(tf_model))))),
                        wg |-> Sqrt(CrossoverSq(tf_model))] }
                ELSE { [gm |-> np_inf, wg |-> np_nan] }
    ELSE MarginVals

\* Mutant: the ultimate period is taken to be 1/wg (frequency in Hz).
zn_closed_loop_gains_hz(m) ==
    IF np_isinf(m.gm) \/ SLeZero(m.gm)
        THEN ValueError("System does not have a finite ultimate gain (Ku). The Ziegler-Nichols closed-loop method is not applicable.")
    ELSE IF SLeZero(m.wg)
        THEN ValueError("System does not have a finite ultimate period (Tu). The Ziegler-Nichols closed-loop method is not applicable.")
    ELSE LET tu == SDiv(FromRat(One), m.wg)
             kc == SMul(FromRat(Rat(6, 10)), m.gm)
         IN  Return([Kp |-> kc,
                     Ki |-> SDiv(kc, SDiv(tu, FromRat(FromInt(2)))),
                     Kd |-> SMul(kc, SDiv(tu, FromRat(FromInt(8))))])

\* The body of ziegler_nichols_closed_loop after the margin call, m = (gm, wg).
zn_closed_loop_gains(m) ==
    IF np_isinf(m.gm) \/ SLeZero(m.gm)
        THEN ValueError("System does not have a finite ultimate gain (Ku). The Ziegler-Nichols closed-loop method is not applicable.")
    ELSE LET ku == m.gm
         IN  IF SLeZero(m.wg)
                THEN ValueError("System does not have a finite ultimate period (Tu). The Ziegler-Nichols closed-loop method is not applicable.")
             ELSE LET tu == SDiv(SMul(FromRat(FromInt(2)), np_pi), m.wg)
                      kc == SMul(FromRat(Rat(6, 10)), ku)
                      ti == SDiv(tu, FromRat(FromInt(2)))
                      td == SDiv(tu, FromRat(FromInt(8)))
                  IN  IF SIsZero(ti) THEN ZeroDivisionError
                      ELSE Return([Kp |-> kc, Ki |-> SDiv(kc, ti), Kd |-> SMul(kc, td)])

\* The outcomes of ziegler_nichols_closed_loop(tf_model), one per margin result.
ziegler_nichols_closed_loop(tf_model) ==
    { [m |-> m, out |-> zn_closed_loop_gains(m)] : m \in margin(tf_model) }

(***************************************************************************)
(* The plants ziegler_nichols_closed_loop is tried on: K/den with integer  *)
(* K in 1..MaxGain and den of degree 1..3 with coefficients 1..MaxCoef,    *)
(* and second-order plants with dead time, as app.py passes them.          *)
(***************************************************************************)
Dens ==
    UNION { [1..n -> {FromInt(c) : c \in 1..MaxCoef}] : n \in 2..4 }

Plants ==
    { tf(<<FromInt(K)>>, den) : K \in 1..MaxGain, den \in Dens }
    \cup { SecondOrderTransferFunction(One, One, Rat(1, 2), theta).value.tf_model :
             theta \in {One, FromInt(2)} }

(***************************************************************************)
(* Integral performance indices.  The samples are floats: finite values    *)
(* n/d, or np.nan, written 0/0, which every operation propagates.          *)
(***************************************************************************)
nan == <<0, 0>>
np_isnan(a) == a = nan

fadd(a, b) == IF np_isnan(a) \/ np_isnan(b) THEN nan ELSE RAdd(a, b)
fsub(a, b) == IF np_isnan(a) \/ np_isnan(b) THEN nan ELSE RSub(a, b)
fmul(a, b) == IF np_isnan(a) \/ np_isnan(b) THEN nan ELSE RMul(a, b)
fabs(a)    == IF np_isnan(a) THEN nan ELSE RAbs(a)

\* The array with the elements f[1], ..., f[n], built by halving the range.
RECURSIVE array_range(_, _, _)
array_range(f, lo, hi) ==
    IF lo > hi THEN <<>>
    ELSE IF lo = hi THEN <<f[lo]>>
    ELSE LET mid == (lo + hi) \div 2
         IN  array_range(f, lo, mid) \o array_range(f, mid + 1, hi)

array(f, n) == array_range(f, 1, n)

\* np.linspace(start, stop, num), num >= 2: start + i * (stop - start)/(num - 1)
linspace(start, stop, num) ==
    array([i \in 1..num |-> RAdd(start, RMul(Rat(i - 1, num - 1), RSub(stop, start)))],
          num)

\* elementwise operations on arrays of one length
scale(c, x)  == [i \in 1..Len(x) |-> fmul(c, x[i])]
rsub(c, x)   == [i \in 1..Len(x) |-> fsub(c, x[i])]
np_abs(x)    == [i \in 1..Len(x) |-> fabs(x[i])]
times(x, y)  == [i \in 1..Len(x) |-> fmul(x[i], y[i])]

\* np.trapezoid(y, x) = sum(diff(x) * (y[1:] + y[:-1]) / 2.0), the sum over
\* the intervals lo..hi taken by halving the range.
RECURSIVE trapezoid_range(_, _, _, _)
trapezoid_range(y, x, lo, hi) ==
    IF lo > hi THEN Zero
    ELSE IF lo = hi
        THEN fmul(fmul(fsub(x[lo + 1], x[lo]), fadd(y[lo + 1], y[lo])), Rat(1, 2))
    ELSE LET mid == (lo + hi) \div 2
         IN  fadd(trapezoid_range(y, x, lo, mid), trapezoid_range(y, x, mid + 1, hi))

trapezoid(y, x) == trapezoid_range(y, x, 1, Len(x) - 1)

\* Mutant: a rectangle rule, sum(diff(x) * y[:-1]).
RECURSIVE rectangle_range(_, _, _, _)
rectangle_range(y, x, lo, hi) ==
    IF lo > hi THEN Zero
    ELSE IF lo = hi THEN fmul(fsub(x[lo + 1], x[lo]), y[lo])
    ELSE LET mid == (lo + hi) \div 2
         IN  fadd(rectangle_range(y, x, lo, mid), rectangle_range(y, x, mid + 1, hi))

rectangle(y, x) == rectangle_range(y, x, 1, Len(x) - 1)

calculate_performance_indices_rect(time, output, setpoint) ==
    IF Len(time) /= Len(output) \/ Len(time) < 2
        THEN Return([IAE |-> nan, ISE |-> nan, ITAE |-> nan, ITSE |-> nan])
    ELSE LET error == rsub(setpoint, output)
         IN  Return([IAE  |-> rectangle(np_abs(error), time),
                     ISE  |-> rectangle(times(error, error), time),
                     ITAE |-> rectangle(times(time, np_abs(error)), time),
                     ITSE |-> rectangle(times(time, times(error, error)), time)])

\* Mutant: a single sample passes the length check.
calculate_performance_indices_len1(time, output, setpoint) ==
    IF Len(time) /= Len(output) \/ Len(time) < 1
        THEN Return([IAE |-> nan, ISE |-> nan, ITAE |-> nan, ITSE |-> nan])
    ELSE LET error == rsub(setpoint, output)
         IN  Return([IAE  |-> trapezoid(np_abs(error), time),
                     ISE  |-> trapezoid(times(error, error), time),
                     ITAE |-> trapezoid(times(time, np_abs(error)), time),
                     ITSE |-> trapezoid(times(time, times(error, error)), time)])

calculate_performance_indices(time, output, setpoint) ==
    IF Len(time) /= Len(output) \/ Len(time) < 2
        THEN Return([IAE |-> nan, ISE |-> nan, ITAE |-> nan, ITSE |-> nan])
    ELSE LET error == rsub(setpoint, output)
             iae  == trapezoid(np_abs(error), time)
             ise  == trapezoid(times(error, error), time)
             itae == trapezoid(times(time, np_abs(error)), time)
             itse == trapezoid(times(time, times(error, error)), time)
         IN  Return([IAE |-> iae, ISE |-> ise, ITAE |-> itae, ITSE |-> itse])

\* setpoint: float = 1.0
setpoint_default == One

(***************************************************************************)
(* The sample arrays the indices are tried on: every time and output array *)
(* of up to MaxLen samples over a few values, with the default and with an *)
(* explicit setpoint, and the test's ramp output = 0.5 * time on           *)
(* linspace(0, 2, n), n = 2..RampSamples.                                  *)
(***************************************************************************)
TimeVals == {Zero, Rat(1, 2), FromInt(2)}
OutVals  == {Zero, Rat(1, 2), FromInt(2), nan}
SetpointVals == {Zero, FromInt(2)}
Arrays(S) == UNION { [1..n -> S] : n \in 0..MaxLen }

(***************************************************************************)
(* ct.TransferFunction as the library builds it: leading zero coefficients *)
(* are dropped, and a model whose numerator is zero is kept as 0/1.  Sums  *)
(* and products are taken over the common denominator, with no pole-zero   *)
(* cancellation.                                                           *)
(***************************************************************************)
IsZeroPoly(p) == \A i \in 1..Len(p) : IsZero(p[i])

RECURSIVE trim(_)
trim(p) == IF Len(p) > 1 /\ IsZero(p[1]) THEN trim(Tail(p)) ELSE p

TransferFunction(num, den) ==
    IF IsZeroPoly(num) THEN tf(<<Zero>>, <<One>>) ELSE tf(trim(num), trim(den))

\* p + q, coefficients aligned at the constant term
polyadd(p, q) ==
    LET n == IF Len(p) > Len(q) THEN Len(p) ELSE Len(q)
        at(x, i) == IF i > n - Len(x) THEN x[i - (n - Len(x))] ELSE Zero
    IN  array([i \in 1..n |-> RAdd(at(p, i), at(q, i))], n)

tf_add(g, h) ==
    TransferFunction(polyadd(polymul(g.num, h.den), polymul(h.num, g.den)),
                     polymul(g.den, h.den))

tf_times(g, h) == TransferFunction(polymul(g.num, h.num), polymul(g.den, h.den))

\* the int 0 as an operand of +: the library converts it to the model 0/1
scalar_zero == TransferFunction(<<Zero>>, <<One>>)

(***************************************************************************)
(* get_pid_controller.  pid_params is a dict: a function whose domain is a *)
(* subset of {"Kp", "Ki", "Kd"}.  p is a TransferFunction, so p + i + d is *)
(* one too and the isinstance branch is never taken.                       *)
(***************************************************************************)
get(d, k, default) == IF k \in DOMAIN d THEN d[k] ELSE default

\* Mutant: the single rational form (Kd s^2 + Kp s + Ki)/s for every triple.
get_pid_controller_over_s(pid_params) ==
    LET kp == get(pid_params, "Kp", Zero)
        ki == get(pid_params, "Ki", Zero)
        kd == get(pid_params, "Kd", Zero)
    IN  IF IsZero(kp) /\ IsZero(ki) /\ IsZero(kd) THEN tf(<<Zero>>, <<One>>)
        ELSE tf(trim(<<kd, kp, ki>>), <<One, Zero>>)

get_pid_controller(pid_params) ==
    LET kp == get(pid_params, "Kp", Zero)
        ki == get(pid_params, "Ki", Zero)
        kd == get(pid_params, "Kd", Zero)
        p == TransferFunction(<<kp>>, <<One>>)
        i == IF ~IsZero(ki) THEN TransferFunction(<<ki>>, <<One, Zero>>) ELSE scalar_zero
        d == IF ~IsZero(kd) THEN TransferFunction(<<kd, Zero>>, <<One>>) ELSE scalar_zero
        controller_tf == tf_add(tf_add(p, i), d)
    IN  controller_tf

GainKeys == {"Kp", "Ki", "Kd"}
\* every dict of gains over Vals, keys possibly missing
GainDicts == UNION { [S -> Vals] : S \in SUBSET GainKeys }

(***************************************************************************)
(* analyze_frequency_domain.  ct.margin(open_loop_tf) gives the gain       *)
(* margin gm and the phase margin pm (degrees); inf stands for "no         *)
(* crossover".  gm is the one of margin() above where that is exact.  For  *)
(* an all-pole loop K/den with K above the DC value of den a gain          *)
(* crossover exists and pm is finite; for K/(a1 s + a0) with K < a0 the    *)
(* magnitude stays below 1 and pm = inf.  The finite value of pm, and      *)
(* both margins of any other loop, are left open.  A Python value is       *)
(* [float |-> v] or [str |-> s].                                           *)
(***************************************************************************)
PyFloat(v) == [float |-> v]
PyStr(x) == [str |-> x]

GainMarginVals == {np_inf, FromRat(FromInt(2)), FromRat(Rat(1, 2))}
PhaseMarginVals == {FromRat(FromInt(-30)), FromRat(FromInt(27)), FromRat(FromInt(60))}

ExactMargin(tf_model) ==
    AllPole(tf_model) /\ (Len(tf_model.den) < 4 \/ ~IsZero(ReAtCrossover(tf_model.den)))

gain_margin(tf_model) ==
    IF ExactMargin(tf_model) THEN { m.gm : m \in margin(tf_model) } ELSE GainMarginVals

phase_margin(tf_model) ==
    IF AllPole(tf_model) /\ RGt(tf_model.num[1], Coef(tf_model.den, 0))
        THEN PhaseMarginVals
    ELSE IF AllPole(tf_model) /\ Len(tf_model.den) = 2
                /\ RLt(tf_model.num[1], Coef(tf_model.den, 0))
        THEN {np_inf}
    ELSE PhaseMarginVals \cup {np_inf}

\* Mutant: the margins are taken of the plant alone.
open_loop_tf_plant_only(sys_tf, pid_params) ==
    TransferFunction(sys_tf.num, sys_tf.den)

\* controller_tf * sys_tf
open_loop_tf(sys_tf, pid_params) ==
    LET controller_tf == get_pid_controller(pid_params)
    IN  tf_times(controller_tf, sys_tf)

\* Mutant: an infinite margin makes both fields the sentinel.
margins_dict_joint(gm, pm) ==
    IF np_isinf(gm) \/ np_isinf(pm)
        THEN [GainMargin |-> PyStr("stable"), PhaseMargin |-> PyStr("stable")]
    ELSE [GainMargin |-> PyFloat(gm), PhaseMargin |-> PyFloat(pm)]

\* the dict built from the two margins
margins_dict(gm, pm) ==
    LET gain_margin_val == IF ~np_isinf(gm) THEN PyFloat(gm) ELSE PyStr("stable")
        phase_margin_val == IF ~np_isinf(pm) THEN PyFloat(pm) ELSE PyStr("stable")
    IN  [GainMargin |-> gain_margin_val, PhaseMargin |-> phase_margin_val]

\* the possible runs: the margins the library found and the outcome
margin_runs(gms, pms) ==
    { [gm |-> gm, pm |-> pm, out |-> Return(margins_dict(gm, pm))] : gm \in gms, pm \in pms }

analyze_frequency_domain(sys_tf, pid_params) ==
    margin_runs(gain_margin(open_loop_tf(sys_tf, pid_params)),
                phase_margin(open_loop_tf(sys_tf, pid_params)))

\* The same for the gains of the closed-loop rule, which are positive and
\* involve pi: the loop has zeros, so both margins are open.
analyze_frequency_domain_zn(sys_tf, pid_params) ==
    margin_runs(GainMarginVals, PhaseMarginVals \cup {np_inf})

\* the plants and gains the analyses are tried on
AnalysisPlants ==
    { tf(<<One>>, <<One, FromInt(3), FromInt(3), One>>),
      tf(<<FromInt(2)>>, <<One, FromInt(2), FromInt(3), One>>),
      tf(<<One>>, <<One, One, One>>),
      tf(<<One>>, <<One, One>>),
      tf(<<FromInt(2)>>, <<One, FromInt(3)>>),
      FirstOrderTransferFunction(One, One, One).value.tf_model }

AnalysisGains ==
    { [Kp |-> kp, Ki |-> ki, Kd |-> kd] :
        kp \in {FromInt(-1), Zero, One, FromInt(4)}, ki \in {Zero, One}, kd \in {Zero, One} }
    \cup { [Kp |-> FromInt(4)] }

(***************************************************************************)
(* analyze_step_response.  A run is the record of the library calls made   *)
(* (steps), the outcome of ct.poles, the horizon T_final and the outcome.  *)
(* ct.poles yields the roots of the closed-loop denominator; the code      *)
(* reads only their real parts.  They are exact for a denominator of       *)
(* degree 0 or 1 and for a quadratic without distinct real roots; any      *)
(* other denominator gets one of OpenPoles, or the root finder raises.     *)
(* The simulated samples and ct.step_info's numbers are not computed: a    *)
(* run draws one of ResponseShapes.                                        *)
(***************************************************************************)
PoleTolerance == Rat(-1, 1000000)

\* ct.feedback(L, 1): L.num / (L.den + L.num); a zero denominator is refused
feedback(L) ==
    IF IsZeroPoly(polyadd(L.den, L.num))
        THEN ValueError("Input 0, output 0 has a zero denominator.")
    ELSE Return(TransferFunction(L.num, polyadd(L.den, L.num)))

NoPoles == [tag |-> "none", re |-> <<>>]
PolesRaise == [tag |-> "raise", re |-> <<>>]
Poles(re) == [tag |-> "poles", re |-> re]

\* real parts of a first pole and of the remaining ones
PolePairs ==
    { <<FromInt(-2), FromInt(-2)>>, <<FromInt(-2), Rat(-1, 2)>>,
      <<Rat(-1, 899400), One>>, <<Rat(-1, 2000000), FromInt(-2)>>,
      <<Rat(-1, 1000000), One>>, <<One, One>> }

OpenPoles(n) ==
    { Poles(array([i \in 1..n |-> IF i = 1 THEN q[1] ELSE q[2]], n)) : q \in PolePairs }
    \cup {PolesRaise}

poles(closed_loop_tf) ==
    LET den == closed_loop_tf.den
        n == Len(den) - 1
        disc == RSub(RMul(den[2], den[2]), RMul(FromInt(4), RMul(den[1], den[3])))
        mid == RNeg(RDiv(den[2], RMul(FromInt(2), den[1])))
    IN  IF n = 0 THEN {Poles(<<>>)}
        ELSE IF n = 1 THEN {Poles(<<RNeg(RDiv(den[2], den[1]))>>)}
        ELSE IF n = 2 /\ RLe(disc, Zero) THEN {Poles(<<mid, mid>>)}
        ELSE OpenPoles(n)

RECURSIVE min_of(_, _)
min_of(xs, i) ==
    IF i = Len(xs) THEN xs[i]
    ELSE LET m == min_of(xs, i + 1) IN IF RLt(xs[i], m) THEN xs[i] ELSE m

RECURSIVE decay_rates(_, _)
decay_rates(re, tol) ==
    IF re = <<>> THEN <<>>
    ELSE (IF RLt(Head(re), tol) THEN <<RAbs(Head(re))>> ELSE <<>>)
            \o decay_rates(Tail(re), tol)

RECURSIVE max_of(_, _)
max_of(xs, i) ==
    IF i = Len(xs) THEN xs[i]
    ELSE LET m == max_of(xs, i + 1) IN IF RLt(m, xs[i]) THEN xs[i] ELSE m

\* Mutant: the fastest qualifying pole sets the horizon.
T_final_fastest(p) ==
    IF p.tag = "raise" THEN FromInt(DefaultHorizon)
    ELSE IF Len(p.re) = 0 THEN FromInt(DefaultHorizon)
    ELSE LET real_parts == decay_rates(p.re, PoleTolerance)
         IN  IF real_parts = <<>> THEN FromInt(DefaultHorizon)
             ELSE RDiv(FromInt(TimeConstants), max_of(real_parts, 1))

\* the try block: the horizon chosen from the outcome p of ct.poles
T_final(p) ==
    IF p.tag = "raise" THEN FromInt(DefaultHorizon)
    ELSE IF Len(p.re) = 0 THEN FromInt(DefaultHorizon)
    ELSE LET real_parts == decay_rates(p.re, PoleTolerance)
         IN  IF real_parts = <<>> THEN FromInt(DefaultHorizon)
             ELSE LET slowest_pole_decay == min_of(real_parts, 1)
                  IN  RDiv(FromInt(TimeConstants), slowest_pole_decay)

ResponseShapes == {"settles", "overflows"}

\* ct.step_response(closed_loop_tf, T=time_vec): the output on the grid
step_response(shape, n) ==
    IF shape = "settles" THEN array([i \in 1..n |-> IF i = 1 THEN Zero ELSE One], n)
    ELSE array([i \in 1..n |-> nan], n)

StepInfoKeys ==
    {"RiseTime", "SettlingTime", "SettlingMin", "SettlingMax", "Overshoot",
     "Undershoot", "Peak", "PeakTime", "SteadyStateValue"}

step_info(shape) == [k \in StepInfoKeys |-> IF shape = "settles" THEN One ELSE nan]

degenerate_result ==
    [time |-> <<Zero, One>>,
     output |-> <<Zero, Zero>>,
     info |-> [k \in {"RiseTime", "SettlingTime", "Overshoot", "Peak", "PeakTime"} |-> nan]]

Run(steps, p, horizon, o) == [steps |-> steps, poles |-> p, T_final |-> horizon, out |-> o]

\* Mutant: the degenerate result is returned whenever Kp = 0.
is_zero_controller_kp(controller_tf, pid_params) ==
    IsZero(get(pid_params, "Kp", Zero))

\* np.all(controller_tf.num[0][0] == [0])
is_zero_controller(controller_tf, pid_params) == IsZeroPoly(controller_tf.num)

\* Mutant: the grid has one sample fewer than the simulated output.
time_grid_short(horizon) == linspace(Zero, horizon, Samples - 1)

\* np.linspace(0, T_final, 1500)
time_grid(horizon) == linspace(Zero, horizon, Samples)

\* the runs from ct.poles on, P the possible outcomes of ct.poles
simulate(P) ==
    { Run(<<"get_pid_controller", "feedback", "poles", "step_response", "step_info">>,
          p, T_final(p),
          Return([time |-> time_grid(T_final(p)),
                  output |-> step_response(shape, Samples),
                  info |-> step_info(shape)])) :
        p \in P, shape \in ResponseShapes }

analyze_step_response(sys_tf, pid_params) ==
    LET controller_tf == get_pid_controller(pid_params)
        closed == feedback(tf_times(controller_tf, sys_tf))
    IN  IF is_zero_controller(controller_tf, pid_params)
            THEN { Run(<<"get_pid_controller">>, NoPoles, Zero, Return(degenerate_result)) }
        ELSE IF closed.tag = "raise"
            THEN { Run(<<"get_pid_controller", "feedback">>, NoPoles, Zero, closed) }
        ELSE simulate(poles(closed.value))

\* The same for the gains of the closed-loop rule, which are positive and
\* involve pi: the controller is (Kd s^2 + Kp s + Ki)/s, not zero, and the
\* closed-loop denominator has the degree of s * sys_tf.den with
\* irrational coefficients, so its poles are open.
analyze_step_response_zn(sys_tf, pid_params) ==
    IF SIsZero(pid_params.Kp) /\ SIsZero(pid_params.Ki) /\ SIsZero(pid_params.Kd)
        THEN { Run(<<"get_pid_controller">>, NoPoles, Zero, Return(degenerate_result)) }
    ELSE simulate(OpenPoles(Len(sys_tf.den)))

\* the plants and gains the simulation is tried on
StepPlants ==
    { tf(<<One>>, <<One, One, One>>),
      tf(<<One>>, <<One, One>>),
      tf(<<One>>, <<One, FromInt(3), FromInt(3), One>>),
      FirstOrderTransferFunction(One, One, One).value.tf_model }

StepGains ==
    { <<>>,
      [Kp |-> One],
      [Kp |-> Zero, Ki |-> Zero, Kd |-> Zero],
      [Kp |-> One, Ki |-> Zero, Kd |-> Zero],
      [Kp |-> Zero, Ki |-> One, Kd |-> Zero],
      [Kp |-> Zero, Ki |-> Zero, Kd |-> One],
      [Kp |-> One, Ki |-> One, Kd |-> One],
      [Kp |-> FromInt(-1), Ki |-> Zero, Kd |-> FromInt(-1)] }

(***************************************************************************)
(* The calls.  Each action is one call of one function, made from the idle *)
(* state on inputs drawn from Vals; fn, args and out record the call and   *)
(* its outcome.                                                            *)
(***************************************************************************)
Idle == fn = "none"

Call(f, a, o) == fn' = f /\ args' = a /\ out' = o

Init == fn = "none" /\ args = <<>> /\ out = Return(<<>>)

CallFirstOrder ==
    /\ Idle
    /\ \E Kp \in Vals, tau \in Vals, theta \in Vals :
        Call("FirstOrderTransferFunction", <<Kp, tau, theta>>,
             FirstOrderTransferFunction(Kp, tau, theta))

CallSecondOrder ==
    /\ Idle
    /\ \E Kp \in Vals, omega_n \in Vals, zeta \in Vals, theta \in Vals :
        Call("SecondOrderTransferFunction", <<Kp, omega_n, zeta, theta>>,
             SecondOrderTransferFunction(Kp, omega_n, zeta, theta))

CallZNOpenLoop ==
    /\ Idle
    /\ \E k_p \in Vals, tau \in Vals, theta \in Vals :
        Call("ziegler_nichols_open_loop", <<k_p, tau, theta>>,
             ziegler_nichols_open_loop(k_p, tau, theta))

CallCohenCoon ==
    /\ Idle
    /\ \E k_p \in Vals, tau \in Vals, theta \in Vals :
        Call("cohen_coon", <<k_p, tau, theta>>, cohen_coon(k_p, tau, theta))

CallIMC ==
    /\ Idle
    /\ \E k_p \in Vals, tau \in Vals, theta \in Vals, tau_c \in Vals :
        Call("imc", <<k_p, tau, theta, tau_c>>, imc(k_p, tau, theta, tau_c))

CallZNClosedLoop ==
    /\ Idle
    /\ \E tf_model \in Plants :
        \E r \in ziegler_nichols_closed_loop(tf_model) :
            Call("ziegler_nichols_closed_loop", <<tf_model, r.m.gm, r.m.wg>>, r.out)

CallIndices ==
    /\ Idle
    /\ \E time \in Arrays(TimeVals), output \in Arrays(OutVals) :
        \/ Call("calculate_performance_indices", <<time, output>>,
                calculate_performance_indices(time, output, setpoint_default))
        \/ \E setpoint \in SetpointVals :
             Call("calculate_performance_indices", <<time, output, setpoint>>,
                  calculate_performance_indices(time, output, setpoint))

CallIndicesRamp ==
    /\ Idle
    /\ \E n \in 2..RampSamples :
        LET time == linspace(Zero, FromInt(2), n)
            output == array(scale(Rat(5, 10), time), n)
        IN  Call("calculate_performance_indices", <<time, output>>,
                 calculate_performance_indices(time, output, setpoint_default))

CallGetPidController ==
    /\ Idle
    /\ \E pid_params \in GainDicts :
        Call("get_pid_controller", <<pid_params>>, Return(get_pid_controller(pid_params)))

CallFrequencyDomain ==
    /\ Idle
    /\ \E sys_tf \in AnalysisPlants, pid_params \in AnalysisGains :
        \E r \in analyze_frequency_domain(sys_tf, pid_params) :
            Call("analyze_frequency_domain", <<sys_tf, pid_params, r.gm, r.pm>>, r.out)

CallStepResponse ==
    /\ Idle
    /\ \E sys_tf \in StepPlants, pid_params \in StepGains :
        \E r \in analyze_step_response(sys_tf, pid_params) :
            Call("analyze_step_response",
                 <<sys_tf, pid_params, r.steps, r.poles, r.T_final>>, r.out)

(***************************************************************************)
(* The pipeline of src/app.py: one run per user interaction.  fn is        *)
(* "pipeline", args holds the widget values, and out holds the run: pc,    *)
(* the step to do next; env, the names bound so far; trace, the steps      *)
(* done; message, the text shown by st.error.  The widget values are       *)
(* within the sliders' ranges.                                             *)
(***************************************************************************)
PipelineInputs ==
    { [model_type |-> "First-Order", kp_sys |-> k, tau |-> One, theta |-> th,
       selected_method |-> m, tau_c |-> One] :
        k \in {Zero, One}, th \in {Zero, One},
        m \in {"Ziegler-Nichols (Open Loop)", "Cohen-Coon", "IMC"} }
    \cup
    { [model_type |-> "Second-Order", kp_sys |-> One, omega_n |-> One, zeta |-> Rat(1, 2),
       theta |-> th, selected_method |-> "Ziegler-Nichols (Closed Loop)"] :
        th \in {Zero, One} }

PipeState(pc, env, trace, message) ==
    [tag |-> "pipeline", pc |-> pc, env |-> env, trace |-> trace, message |-> message]

InPipeline(pc) == fn = "pipeline" /\ out.pc = pc

\* a step that bound name to value and passes on to the step next
Advance(st, step, name, value, next) ==
    [st EXCEPT !.pc = next, !.env = (name :> value) @@ st.env,
               !.trace = Append(st.trace, step)]

\* the except handlers: st.error shows the message, nothing else runs
Fail(st, e) ==
    [st EXCEPT !.pc = "error", !.trace = Append(st.trace, "st.error"),
               !.message = IF e.kind = "ValueError"
                              THEN "Calculation Error: " \o e.msg
                              ELSE "An unexpected error occurred: " \o e.msg]

\* Mutant: a rule that is not applicable is replaced by default gains.
tuning_failed_default(st, e) ==
    Advance(st, "synthesize_gains", "pid_params",
            [Kp |-> One, Ki |-> Zero, Kd |-> Zero], "simulate")

\* an exception of the tuning rule
tuning_failed(st, e) == Fail(st, e)

\* the outcomes of the rule the run selects
synthesize_gains(inputs, system) ==
    IF inputs.model_type = "First-Order"
        THEN IF inputs.selected_method = "Ziegler-Nichols (Open Loop)"
                THEN {ziegler_nichols_open_loop(inputs.kp_sys, inputs.tau, inputs.theta)}
             ELSE IF inputs.selected_method = "Cohen-Coon"
                THEN {cohen_coon(inputs.kp_sys, inputs.tau, inputs.theta)}
             ELSE {imc(inputs.kp_sys, inputs.tau, inputs.theta, inputs.tau_c)}
    ELSE { r.out : r \in ziegler_nichols_closed_loop(system.tf_model) }

build_plant(inputs) ==
    IF inputs.model_type = "First-Order"
        THEN FirstOrderTransferFunction(inputs.kp_sys, inputs.tau, inputs.theta)
    ELSE SecondOrderTransferFunction(inputs.kp_sys, inputs.omega_n, inputs.zeta,
                                     inputs.theta)

PipelineStart ==
    /\ Idle
    /\ \E inputs \in PipelineInputs :
        Call("pipeline", <<inputs>>, PipeState("build_plant", <<>>, <<>>, ""))

PipelineBuildPlant ==
    /\ InPipeline("build_plant")
    /\ LET o == build_plant(args[1])
       IN  out' = IF o.tag = "raise" THEN Fail(out, o)
                  ELSE Advance(out, "build_plant", "system", o.value, "synthesize_gains")
    /\ UNCHANGED <<fn, args>>

PipelineSynthesizeGains ==
    /\ InPipeline("synthesize_gains")
    /\ \E o \in synthesize_gains(args[1], out.env.system) :
        out' = IF o.tag = "raise" THEN tuning_failed(out, o)
               ELSE Advance(out, "synthesize_gains", "pid_params", o.value, "simulate")
    /\ UNCHANGED <<fn, args>>

PipelineSimulate ==
    /\ InPipeline("simulate")
    /\ \E r \in IF args[1].model_type = "First-Order"
                   THEN analyze_step_response(out.env.system.tf_model, out.env.pid_params)
                   ELSE analyze_step_response_zn(out.env.system.tf_model,
                                                 out.env.pid_params) :
        out' = IF r.out.tag = "raise" THEN Fail(out, r.out)
               ELSE Advance(out, "simulate", "step_response_data", r.out.value, "indices")
    /\ UNCHANGED <<fn, args>>

PipelineIndices ==
    /\ InPipeline("indices")
    /\ LET o == calculate_performance_indices(out.env.step_response_data.time,
                                              out.env.step_response_data.output,
                                              setpoint_default)
       IN  out' = Advance(out, "indices", "indices", o.value, "margins")
    /\ UNCHANGED <<fn, args>>

PipelineMargins ==
    /\ InPipeline("margins")
    /\ \E r \in IF args[1].model_type = "First-Order"
                   THEN analyze_frequency_domain(out.env.system.tf_model,
                                                 out.env.pid_params)
                   ELSE analyze_frequency_domain_zn(out.env.system.tf_model,
                                                    out.env.pid_params) :
        out' = Advance(out, "margins", "margins", r.out.value, "display")
    /\ UNCHANGED <<fn, args>>

\* sections 3 and 4: the results and the plots are shown
PipelineDisplay ==
    /\ InPipeline("display")
    /\ out' = [out EXCEPT !.pc = "export", !.trace = Append(out.trace, "display")]
    /\ UNCHANGED <<fn, args>>

\* section 5: the results are offered for download
PipelineExport ==
    /\ InPipeline("export")
    /\ out' = [out EXCEPT !.pc = "done", !.trace = Append(out.trace, "export")]
    /\ UNCHANGED <<fn, args>>

Next ==
    \/ CallFirstOrder
    \/ CallSecondOrder
    \/ CallZNOpenLoop
    \/ CallCohenCoon
    \/ CallIMC
    \/ CallZNClosedLoop
    \/ CallIndices
    \/ CallIndicesRamp
    \/ CallGetPidController
    \/ CallFrequencyDomain
    \/ CallStepResponse
    \/ PipelineStart
    \/ PipelineBuildPlant
    \/ PipelineSynthesizeGains
    \/ PipelineSimulate
    \/ PipelineIndices
    \/ PipelineMargins
    \/ PipelineDisplay
    \/ PipelineExport

Spec == Init /\ [][Next]_vars

(***************************************************************************)
(* Properties.  In a state reached by a call, args holds the arguments in  *)
(* the order of the function's signature and out its outcome.              *)
(***************************************************************************)
Returned == out.tag = "return"
Raised   == out.tag = "raise"
Pos(a)    == a[1] > 0
Neg(a)    == a[1] < 0
NonPos(a) == a[1] <= 0
IsFinite(a) == a \in Int \X (Nat \ {0})
IsPlant == /\ DOMAIN out = {"tag", "value"}
           /\ "tf_model" \in DOMAIN out.value
           /\ Len(out.value.tf_model.den) >= 2
NoObject == DOMAIN out = {"tag", "kind", "msg"}

\* C1: construction of a first-order plant fails iff tau <= 0 or theta < 0, of
\* a second-order plant iff omega_n <= 0 or zeta <= 0 or theta < 0, whatever
\* Kp is; a failure produces no plant object, a success one with a tf_model.
ThmC1 ==
    /\ fn = "FirstOrderTransferFunction" =>
          /\ Raised <=> (NonPos(args[2]) \/ Neg(args[3]))
          /\ Raised => NoObject
          /\ Returned => IsPlant /\ out.value.Kp = args[1]
    /\ fn = "SecondOrderTransferFunction" =>
          /\ Raised <=> (NonPos(args[2]) \/ NonPos(args[3]) \/ Neg(args[4]))
          /\ Raised => NoObject
          /\ Returned => IsPlant /\ out.value.Kp = args[1]

\* C1 witness: a first-order plant with Kp = 0 and theta = 0 was built.
WitC1 ==
    /\ fn = "FirstOrderTransferFunction"
    /\ IsZero(args[1]) /\ Pos(args[2]) /\ IsZero(args[3])
    /\ Returned /\ IsPlant

KpZeroMsg == "Process gain (k_p) cannot be zero."
IsGains == /\ DOMAIN out = {"tag", "value"}
           /\ DOMAIN out.value = {"Kp", "Ki", "Kd"}
           /\ \A k \in {"Kp", "Ki", "Kd"} : IsFinite(out.value[k])
OpenLoopRule == fn \in {"ziegler_nichols_open_loop", "cohen_coon"}

\* C2: a call of ziegler_nichols_open_loop or cohen_coon with tau > 0 returns
\* gains iff Kp /= 0 and theta > 0, the gains then being three finite reals;
\* otherwise it raises and returns nothing; it never divides by zero; with
\* Kp = 0 and theta <= 0 together the error is the one for Kp = 0.
ThmC2 ==
    (OpenLoopRule /\ Pos(args[2])) =>
        /\ Returned <=> (~IsZero(args[1]) /\ Pos(args[3]))
        /\ Returned => IsGains
        /\ Raised => NoObject /\ out.kind = "ValueError"
        /\ (IsZero(args[1]) /\ NonPos(args[3])) => Raised /\ out.msg = KpZeroMsg

\* C2 witness: an open-loop rule was called with Kp = 0 and theta <= 0 together.
WitC2 ==
    /\ OpenLoopRule /\ Pos(args[2])
    /\ IsZero(args[1]) /\ NonPos(args[3])
    /\ Raised /\ out.msg = KpZeroMsg

ValidIMCNoDeadTime ==
    /\ fn = "imc"
    /\ ~IsZero(args[1]) /\ Pos(args[2]) /\ IsZero(args[3]) /\ Pos(args[4])

\* C3 as claimed: imc on Kp /= 0, tau > 0, tau_c > 0 and theta = 0 fails and
\* returns no gains.
CexC3 == ValidIMCNoDeadTime => Raised

\* C3 as amended: imc on Kp /= 0, tau > 0, tau_c > 0 and theta = 0 does not
\* fail; it returns Kp = tau/(Kp*tau_c), Ki = 1/(Kp*tau_c), Kd = 0, whereas
\* ziegler_nichols_open_loop and cohen_coon on theta = 0 raise ValueError.
ThmC3 ==
    /\ ValidIMCNoDeadTime =>
          /\ Returned /\ IsGains
          /\ out.value.Kp = Rat(args[2][1] * args[1][2] * args[4][2],
                                args[2][2] * args[1][1] * args[4][1])
          /\ out.value.Ki = Rat(args[1][2] * args[4][2], args[1][1] * args[4][1])
          /\ out.value.Kd = Zero
    /\ (OpenLoopRule /\ ~IsZero(args[1]) /\ Pos(args[2]) /\ IsZero(args[3])) =>
          /\ Raised /\ out.kind = "ValueError" /\ out.msg /= KpZeroMsg

\* C3 witness: imc returned gains for a plant without dead time.
WitC3 == ValidIMCNoDeadTime /\ Returned /\ ~IsZero(out.value.Kp)

TuningRule == fn \in {"ziegler_nichols_open_loop", "cohen_coon", "imc",
                      "ziegler_nichols_closed_loop"}
Constructor == fn \in {"FirstOrderTransferFunction", "SecondOrderTransferFunction"}

\* The rule does not apply to an otherwise legal system: no dead time for an
\* open-loop rule, no finite ultimate gain or period for the closed-loop rule.
NotApplicableCase ==
    /\ Raised
    /\ \/ OpenLoopRule /\ ~IsZero(args[1]) /\ IsZero(args[3])
       \/ fn = "ziegler_nichols_closed_loop"

\* A parameter is out of its domain: Kp = 0 in a rule, tau_c <= 0 in imc,
\* tau <= 0, omega_n <= 0, zeta <= 0 or theta < 0 in a constructor.
InvalidParameterCase ==
    /\ Raised
    /\ \/ fn \in {"ziegler_nichols_open_loop", "cohen_coon", "imc"} /\ IsZero(args[1])
       \/ fn = "imc" /\ NonPos(args[4])
       \/ Constructor

InvalidParameterOutcomes ==
    { ziegler_nichols_open_loop(Zero, One, One), cohen_coon(Zero, One, One),
      imc(Zero, One, One, One), imc(One, One, One, Zero),
      FirstOrderTransferFunction(One, Zero, One),
      FirstOrderTransferFunction(One, One, FromInt(-1)),
      SecondOrderTransferFunction(One, Zero, One, One),
      SecondOrderTransferFunction(One, One, Zero, One),
      SecondOrderTransferFunction(One, One, One, FromInt(-1)) }

\* C4 as claimed: the error kind of an inapplicable rule differs from the error
\* kind of every out-of-domain parameter.
CexC4 ==
    NotApplicableCase => \A o \in InvalidParameterOutcomes : out.kind /= o.kind

\* C4 as amended: an inapplicable rule and an out-of-domain parameter raise the
\* same error kind, ValueError; only the message text differs between them.
ThmC4 ==
    /\ (NotApplicableCase \/ InvalidParameterCase) => out.kind = "ValueError"
    /\ \A o \in InvalidParameterOutcomes : o.tag = "raise" /\ o.kind = "ValueError"
    /\ NotApplicableCase => \A o \in InvalidParameterOutcomes : out.msg /= o.msg

\* C4 witness: ziegler_nichols_open_loop refused a legal plant without dead time.
WitC4 ==
    /\ fn = "ziegler_nichols_open_loop" /\ NotApplicableCase
    /\ Pos(args[2]) /\ out.kind = "ValueError"

OnDomain == ~IsZero(args[1]) /\ Pos(args[2]) /\ Pos(args[3])
Scenario123 == args[1] = Rat(3, 2) /\ args[2] = FromInt(4) /\ args[3] = One

\* C5: for Kp /= 0, tau > 0, theta > 0 ziegler_nichols_open_loop returns
\* Kp_c = 1.2*tau/(Kp*theta), Ki = Kp_c/(2*theta), Kd = Kp_c*0.5*theta;
\* (1.5, 4, 1) gives 3.2, 1.6, 1.6.  With Kp = kn/kd, tau = tn/td and
\* theta = hn/hd: Kp_c = 6 tn kd hd / (5 td kn hn).
ThmC5 ==
    (fn = "ziegler_nichols_open_loop" /\ OnDomain) =>
        LET kn == args[1][1]  kd == args[1][2]
            tn == args[2][1]  td == args[2][2]
            hn == args[3][1]  hd == args[3][2]
        IN  /\ Returned /\ IsGains
            /\ out.value.Kp = Rat(6 * tn * kd * hd, 5 * td * kn * hn)
            /\ out.value.Ki = Rat(6 * tn * kd * hd * hd, 10 * td * kn * hn * hn)
            /\ out.value.Kd = Rat(6 * tn * kd, 10 * td * kn)
            /\ Scenario123 => /\ out.value.Kp = Rat(32, 10)
                              /\ out.value.Ki = Rat(16, 10)
                              /\ out.value.Kd = Rat(16, 10)

\* C5 witness: the call on (1.5, 4, 1) returned Kp = 3.2.
WitC5 ==
    /\ fn = "ziegler_nichols_open_loop" /\ Scenario123
    /\ Returned /\ out.value.Kp = Rat(32, 10)

\* |a - b| < 0.0005: a equals b to three decimal places.
About3(a, b) == RLt(RAbs(RSub(a, b)), Rat(5, 10000))

\* C6: for Kp /= 0, tau > 0, theta > 0 cohen_coon returns
\* Kp_c = (tau/(Kp*theta))*(4/3 + theta/(4*tau)), Ki = Kp_c/Ti with
\* Ti = theta*(32*tau+6*theta)/(13*tau+8*theta), and Kd = Kp_c*Td with
\* Td = theta*4*tau/(11*tau+2*theta); (1.5, 4, 1) gives 67/18, 5/3, 268/207
\* (3.722, 1.667, 1.295 to three places).
ThmC6 ==
    (fn = "cohen_coon" /\ OnDomain) =>
        LET K == args[1]
            T == args[2]
            L == args[3]
            Kc == RMul(RDiv(T, RMul(K, L)),
                       RAdd(Rat(4, 3), RDiv(L, RMul(FromInt(4), T))))
            Ti == RDiv(RMul(L, RAdd(RMul(FromInt(32), T), RMul(FromInt(6), L))),
                       RAdd(RMul(FromInt(13), T), RMul(FromInt(8), L)))
            Td == RDiv(RMul(RMul(L, FromInt(4)), T),
                       RAdd(RMul(FromInt(11), T), RMul(FromInt(2), L)))
        IN  /\ Returned /\ IsGains
            /\ out.value.Kp = Kc
            /\ out.value.Ki = RDiv(Kc, Ti)
            /\ out.value.Kd = RMul(Kc, Td)
            /\ Scenario123 => /\ out.value.Kp = Rat(67, 18)
                              /\ out.value.Ki = Rat(5, 3)
                              /\ out.value.Kd = Rat(268, 207)
                              /\ About3(out.value.Kp, Rat(3722, 1000))
                              /\ About3(out.value.Ki, Rat(1667, 1000))
                              /\ About3(out.value.Kd, Rat(1295, 1000))

\* C6 witness: the call on (1.5, 4, 1) returned Kp = 67/18.
WitC6 ==
    /\ fn = "cohen_coon" /\ Scenario123
    /\ Returned /\ out.value.Kp = Rat(67, 18)

\* C7 as claimed: imc fails, returning no gains, iff Kp = 0 or tau_c <= 0 (Kp
\* checked first); otherwise it returns Kp_c = (1/Kp)*(tau+0.5*theta)/
\* (tau_c+0.5*theta), Ki = Kp_c/(tau+0.5*theta) (0 when tau+0.5*theta = 0) and
\* Kd = Kp_c*tau*theta/(2*tau+theta) (Td = 0 when 2*tau+theta = 0);
\* (1.5, 4, 1, 1.5) gives 1.5, 1/3, 2/3.
CexC7 ==
    fn = "imc" =>
        LET K == args[1]
            T == args[2]
            L == args[3]
            tau_c == args[4]
            Ti == RAdd(T, RMul(Rat(1, 2), L))
            D  == RAdd(RMul(FromInt(2), T), L)
        IN  /\ Raised <=> (IsZero(K) \/ NonPos(tau_c))
            /\ Raised => NoObject
            /\ IsZero(K) => Raised /\ out.msg = KpZeroMsg
            /\ Returned =>
                 LET Kc == RDiv(RMul(RDiv(One, K), Ti), RAdd(tau_c, RMul(Rat(1, 2), L)))
                 IN  /\ IsGains
                     /\ out.value.Kp = Kc
                     /\ out.value.Ki = IF IsZero(Ti) THEN Zero ELSE RDiv(Kc, Ti)
                     /\ out.value.Kd = IF IsZero(D) THEN Zero
                                       ELSE RMul(Kc, RDiv(RMul(T, L), D))
            /\ (Scenario123 /\ tau_c = Rat(3, 2)) =>
                 /\ Returned
                 /\ out.value.Kp = Rat(3, 2)
                 /\ out.value.Ki = Rat(1, 3)
                 /\ out.value.Kd = Rat(2, 3)

KuMsg == "System does not have a finite ultimate gain (Ku). The Ziegler-Nichols closed-loop method is not applicable."
CubePlant == tf(<<One>>, <<One, FromInt(3), FromInt(3), One>>)
LagPlant  == tf(<<One>>, <<One, One>>)
IsFiniteSurd(a) == a.sgn \in {-1, 0, 1} /\ IsFinite(a.sq) /\ a.pi \in Int

\* 3.14 < pi < 22/7
PiLo == Rat(314, 100)
PiHi == Rat(22, 7)
Sq(a) == RMul(a, a)
\* lo < a < hi for a positive value a = sqrt(sq) * pi^k, k in {-1, 1}
Between(a, lo, hi) ==
    /\ a.sgn = 1
    /\ a.pi = -1 => /\ RLt(RMul(Sq(lo), Sq(PiHi)), a.sq)
                    /\ RLt(a.sq, RMul(Sq(hi), Sq(PiLo)))
    /\ a.pi = 1  => /\ RLt(Sq(lo), RMul(a.sq, Sq(PiLo)))
                    /\ RLt(RMul(a.sq, Sq(PiHi)), Sq(hi))
    /\ a.pi \in {-1, 1}

\* C8: with Ku and w_pc the gain margin and phase-crossover frequency of the
\* plant, ziegler_nichols_closed_loop fails, returning no gains, iff Ku is
\* infinite or Ku <= 0 or w_pc <= 0, the Ku test first; otherwise, with
\* Tu = 2*pi/w_pc, it returns Kp = 0.6*Ku, Ki = Kp/(Tu/2) = Kp*w_pc/pi and
\* Kd = Kp*Tu/8 = Kp*pi/(4*w_pc).  For 1/(s+1)^3 (Ku = 8, w_pc^2 = 3) it
\* returns Kp = 4.8, Ki = 4.8*sqrt(3)/pi in (2.64, 2.65) and
\* Kd = 1.2*pi/sqrt(3) in (2.17, 2.18); for 1/(s+1) it fails.
ThmC8 ==
    fn = "ziegler_nichols_closed_loop" =>
        LET Ku == args[2]
            w_pc == args[3]
            NoKu == Ku.sq[2] = 0 \/ Ku.sgn <= 0
            NoTu == w_pc.sq[2] /= 0 /\ w_pc.sgn <= 0
        IN  /\ Raised <=> (NoKu \/ NoTu)
            /\ Raised => NoObject /\ out.kind = "ValueError"
            /\ NoKu => Raised /\ out.msg = KuMsg
            /\ (Raised /\ ~NoKu) => out.msg /= KuMsg
            /\ Returned =>
                 /\ DOMAIN out.value = {"Kp", "Ki", "Kd"}
                 /\ \A k \in {"Kp", "Ki", "Kd"} : IsFiniteSurd(out.value[k])
                 /\ out.value.Kp = [sgn |-> 1, sq |-> RMul(Rat(9, 25), Ku.sq), pi |-> Ku.pi]
                 /\ out.value.Ki = [sgn |-> 1,
                                    sq |-> RMul(out.value.Kp.sq, w_pc.sq),
                                    pi |-> out.value.Kp.pi + w_pc.pi - 1]
                 /\ out.value.Kd = [sgn |-> 1,
                                    sq |-> RDiv(out.value.Kp.sq, RMul(FromInt(16), w_pc.sq)),
                                    pi |-> out.value.Kp.pi - w_pc.pi + 1]
            /\ args[1] = CubePlant =>
                 /\ Ku = FromRat(FromInt(8)) /\ w_pc = Sqrt(FromInt(3))
                 /\ Returned
                 /\ out.value.Kp = FromRat(Rat(48, 10))
                 /\ out.value.Ki = [sgn |-> 1, sq |-> Rat(6912, 100), pi |-> -1]
                 /\ out.value.Kd = [sgn |-> 1, sq |-> Rat(48, 100), pi |-> 1]
                 /\ Between(out.value.Ki, Rat(264, 100), Rat(265, 100))
                 /\ Between(out.value.Kd, Rat(217, 100), Rat(218, 100))
            /\ args[1] = LagPlant => np_isinf(Ku) /\ Raised /\ out.msg = KuMsg

\* C8 witness: the rule returned Kp = 4.8 for the plant 1/(s+1)^3.
WitC8 ==
    /\ fn = "ziegler_nichols_closed_loop" /\ args[1] = CubePlant
    /\ Returned /\ out.value.Kp = FromRat(Rat(48, 10))

Indices == fn = "calculate_performance_indices"
IndexNames == {"IAE", "ISE", "ITAE", "ITSE"}
BadSamples == Len(args[1]) /= Len(args[2]) \/ Len(args[1]) < 2

AllNaN == \A k \in IndexNames : out.value[k] = nan
NaNSample == \E i \in 1..Len(args[2]) : np_isnan(args[2][i])

\* C9 as stated: calculate_performance_indices never raises; whenever
\* len(time) /= len(output) or len(time) < 2 it returns the record
\* {IAE, ISE, ITAE, ITSE} with all four fields NaN, and it returns the
\* all-NaN record only in those cases.
CexC9 ==
    Indices =>
        /\ Returned
        /\ DOMAIN out.value = IndexNames
        /\ AllNaN <=> BadSamples

\* C9 amended: calculate_performance_indices never raises; it returns the
\* record {IAE, ISE, ITAE, ITSE} with all four fields NaN whenever
\* len(time) /= len(output) or len(time) < 2 (empty and single-sample inputs
\* included), and besides those cases exactly when an output sample is NaN;
\* on equal-length inputs of at least 2 samples without a NaN all four fields
\* are finite numbers.
ThmC9 ==
    Indices =>
        /\ Returned
        /\ DOMAIN out.value = IndexNames
        /\ AllNaN <=> (BadSamples \/ NaNSample)
        /\ ~(BadSamples \/ NaNSample) => \A k \in IndexNames : IsFinite(out.value[k])

\* C9 witness: a single-sample call (equal lengths, no NaN among the samples)
\* returned the all-NaN record.
WitC9 ==
    /\ Indices /\ Len(args[1]) = 1 /\ Len(args[2]) = 1 /\ ~NaNSample
    /\ Returned /\ AllNaN

RECURSIVE SumRange(_, _, _)
SumRange(f, lo, hi) ==
    IF lo > hi THEN Zero
    ELSE IF lo = hi THEN f[lo]
    ELSE fadd(SumRange(f, lo, (lo + hi) \div 2), SumRange(f, (lo + hi) \div 2 + 1, hi))

\* sum over i of (t_{i+1} - t_i) * (g_i + g_{i+1}) / 2
TrapezoidSum(t, g) ==
    SumRange([i \in 1..(Len(t) - 1) |->
                fmul(fmul(fsub(t[i + 1], t[i]), fadd(g[i], g[i + 1])), Rat(1, 2))],
             1, Len(t) - 1)

SetpointUsed == IF Len(args) = 3 THEN args[3] ELSE One
ErrorAt(i) == fsub(SetpointUsed, args[2][i])

\* the ramp output = 0.5 * t on n evenly spaced samples of [0, 2], setpoint 1
IsRamp ==
    /\ Len(args) = 2 /\ ~BadSamples
    /\ \A i \in 1..Len(args[1]) :
          /\ args[1][i] = Rat(2 * (i - 1), Len(args[1]) - 1)
          /\ args[2][i] = Rat(i - 1, Len(args[1]) - 1)
RampStepSq == Rat(4, (Len(args[1]) - 1) * (Len(args[1]) - 1))

\* C10: on equal-length inputs of at least 2 samples the four indices are the
\* trapezoid sums over the sample grid of |e|, e^2, t*|e| and t*e^2 with
\* e_i = setpoint - output_i and setpoint 1 unless given.  On the ramp
\* output = 0.5*t over n evenly spaced samples of [0, 2] (step h) they are
\* IAE = 1, ISE = 2/3 + h^2/12, ITAE = 2/3 - h^2/6, ITSE = 1/3 - h^2/12, which
\* tend to 1, 2/3, 2/3, 1/3 and agree with them to three places at n = 100.
ThmC10 ==
    (Indices /\ ~BadSamples) =>
        LET t == args[1]
            n == Len(args[1])
        IN  /\ Returned
            /\ out.value.IAE  = TrapezoidSum(t, [i \in 1..n |-> fabs(ErrorAt(i))])
            /\ out.value.ISE  = TrapezoidSum(t, [i \in 1..n |-> fmul(ErrorAt(i), ErrorAt(i))])
            /\ out.value.ITAE =
                  TrapezoidSum(t, [i \in 1..n |-> fmul(t[i], fabs(ErrorAt(i)))])
            /\ out.value.ITSE =
                  TrapezoidSum(t, [i \in 1..n |-> fmul(t[i], fmul(ErrorAt(i), ErrorAt(i)))])
            /\ IsRamp =>
                  /\ out.value.IAE  = One
                  /\ out.value.ISE  = RAdd(Rat(2, 3), RDiv(RampStepSq, FromInt(12)))
                  /\ out.value.ITAE = RSub(Rat(2, 3), RDiv(RampStepSq, FromInt(6)))
                  /\ out.value.ITSE = RSub(Rat(1, 3), RDiv(RampStepSq, FromInt(12)))
            /\ (IsRamp /\ n = RampSamples) =>
                  /\ About3(out.value.ISE, Rat(2, 3))
                  /\ About3(out.value.ITAE, Rat(2, 3))
                  /\ About3(out.value.ITSE, Rat(1, 3))

\* C10 witness: the indices of the ramp on RampSamples samples were computed.
WitC10 ==
    /\ Indices /\ IsRamp /\ Len(args[1]) = RampSamples
    /\ Returned /\ out.value.IAE = One

(***************************************************************************)
(* The value of a model at s = jw, as a complex number <<re, im>>.         *)
(***************************************************************************)
CAdd(a, b) == <<RAdd(a[1], b[1]), RAdd(a[2], b[2])>>
CMul(a, b) == <<RSub(RMul(a[1], b[1]), RMul(a[2], b[2])),
                RAdd(RMul(a[1], b[2]), RMul(a[2], b[1]))>>
RECURSIVE PolyAt(_, _, _)
PolyAt(p, z, acc) ==
    IF p = <<>> THEN acc
    ELSE PolyAt(Tail(p), z, CAdd(CMul(acc, z), <<Head(p), Zero>>))
AtJw(p, w) == PolyAt(p, <<Zero, w>>, <<Zero, Zero>>)
Freqs == {Rat(1, 2), One, FromInt(2)}
GainOf(k) == IF k \in DOMAIN args[1] THEN args[1][k] ELSE Zero

\* C13: get_pid_controller returns a model equal, as a rational function of
\* s, to Kp + Ki/s + Kd*s for every gain dict (missing keys count as 0): its
\* numerator times s equals (Kd s^2 + Kp s + Ki) times its denominator, and
\* at every s = jw, w /= 0, its value is Kp + j*(Kd*w - Ki/w).  With
\* Ki = Kd = 0 it is the constant model Kp/1, whose value at every frequency
\* is Kp exactly, and with Kp = Ki = Kd = 0 it is the zero model 0/1.
ThmC13 ==
    fn = "get_pid_controller" =>
        LET kp == GainOf("Kp")
            ki == GainOf("Ki")
            kd == GainOf("Kd")
            c == out.value
        IN  /\ Returned
            /\ DOMAIN c = {"num", "den"}
            /\ ~IsZeroPoly(c.den)
            /\ trim(polymul(c.num, <<One, Zero>>)) = trim(polymul(<<kd, kp, ki>>, c.den))
            /\ \A w \in Freqs :
                  CMul(AtJw(c.den, w), <<kp, RSub(RMul(kd, w), RDiv(ki, w))>>)
                      = AtJw(c.num, w)
            /\ (IsZero(ki) /\ IsZero(kd)) =>
                  /\ c = tf(<<kp>>, <<One>>)
                  /\ \A w \in Freqs \cup {Zero} :
                        AtJw(c.num, w) = <<kp, Zero>> /\ AtJw(c.den, w) = <<One, Zero>>
            /\ (IsZero(kp) /\ IsZero(ki) /\ IsZero(kd)) => c = tf(<<Zero>>, <<One>>)

\* C13 witness: the gains {Kp: 2, Ki: 0, Kd: 0} gave the constant model 2/1.
WitC13 ==
    /\ fn = "get_pid_controller"
    /\ args[1] = [Kp |-> FromInt(2), Ki |-> Zero, Kd |-> Zero]
    /\ Returned /\ out.value = tf(<<FromInt(2)>>, <<One>>)

FrequencyDomain == fn = "analyze_frequency_domain"
IsSentinel(x) == x = PyStr("stable")
IsNumber(x) == DOMAIN x = {"float"}
POnly(kp) == args[2] \in {[Kp |-> kp], [Kp |-> kp, Ki |-> Zero, Kd |-> Zero]}
\* |G(jw)|^2 for the cubic all-pole model g at w^2 = a1/a3, its phase crossover
MagSqAtCrossover(g) ==
    RDiv(RMul(g.num[1], g.num[1]), RMul(ReAtCrossover(g.den), ReAtCrossover(g.den)))

\* C11: analyze_frequency_domain takes the margins of controller x plant: the
\* margins it reports are margins of the loop model num_c*num_p /
\* (den_c*den_p).  For a P-only controller Kp > 0 on a cubic all-pole plant
\* with a phase crossover at w_pc^2 = a1/a3 the reported GainMargin is the
\* number 1/|L(j w_pc)| = 1/(Kp*|G(j w_pc)|), in linear units; for the plant
\* 1/(s+1)^3 with Kp = 4, |L| = 4/8 there and GainMargin = 2.0, a number and
\* not the sentinel (the plant alone has gain margin 8).
ThmC11 ==
    FrequencyDomain =>
        LET plant == args[1]
            L == open_loop_tf(args[1], args[2])
            gm == args[3]
            pm == args[4]
        IN  /\ Returned
            /\ L = TransferFunction(polymul(get_pid_controller(args[2]).num, plant.num),
                                    polymul(get_pid_controller(args[2]).den, plant.den))
            /\ gm \in gain_margin(L) /\ pm \in phase_margin(L)
            /\ \A kp \in {One, FromInt(4)} :
                 (POnly(kp) /\ AllPole(plant) /\ Len(plant.den) = 4
                    /\ RLt(ReAtCrossover(plant.den), Zero)) =>
                    /\ IsNumber(out.value.GainMargin)
                    /\ out.value.GainMargin.float.sgn = 1
                    /\ out.value.GainMargin.float.pi = 0
                    /\ RMul(out.value.GainMargin.float.sq,
                            RMul(RMul(kp, kp), MagSqAtCrossover(plant))) = One
            /\ (plant = CubePlant /\ POnly(FromInt(4))) =>
                    /\ MagSqAtCrossover(L) = Rat(16, 64)
                    /\ out.value.GainMargin = PyFloat(FromRat(FromInt(2)))

\* C11 witness: the plant 1/(s+1)^3 with Kp = 4 was analysed, GainMargin = 2.
WitC11 ==
    /\ FrequencyDomain /\ args[1] = CubePlant /\ POnly(FromInt(4))
    /\ Returned /\ out.value.GainMargin = PyFloat(FromRat(FromInt(2)))

\* C12: in the result of analyze_frequency_domain each field is decided on
\* its own margin: GainMargin is the sentinel iff the computed gain margin is
\* infinite and is that finite number otherwise; PhaseMargin is the sentinel
\* iff the computed phase margin is infinite and is that finite number
\* otherwise.
ThmC12 ==
    FrequencyDomain =>
        LET gm == args[3]
            pm == args[4]
        IN  /\ Returned
            /\ DOMAIN out.value = {"GainMargin", "PhaseMargin"}
            /\ IsSentinel(out.value.GainMargin) <=> np_isinf(gm)
            /\ ~np_isinf(gm) => out.value.GainMargin = PyFloat(gm)
            /\ IsSentinel(out.value.PhaseMargin) <=> np_isinf(pm)
            /\ ~np_isinf(pm) => out.value.PhaseMargin = PyFloat(pm)

\* C12 witness: a result with the sentinel gain margin and a numeric phase
\* margin (the lag 1/(s+1) under Kp = 4: no phase crossover, a gain crossover).
WitC12 ==
    /\ FrequencyDomain /\ args[1] = LagPlant /\ POnly(FromInt(4))
    /\ Returned
    /\ IsSentinel(out.value.GainMargin) /\ IsNumber(out.value.PhaseMargin)

StepCall == fn = "analyze_step_response"
GainIn(d, k) == IF k \in DOMAIN d THEN d[k] ELSE Zero
AllZeroGains(d) == \A k \in {"Kp", "Ki", "Kd"} : IsZero(GainIn(d, k))
IsDegenerate(r) ==
    /\ r.time = <<Zero, One>>
    /\ r.output = <<Zero, Zero>>
    /\ DOMAIN r.info = {"RiseTime", "SettlingTime", "Overshoot", "Peak", "PeakTime"}
    /\ \A k \in DOMAIN r.info : r.info[k] = nan

\* C15: analyze_step_response returns the degenerate result (time = [0, 1],
\* output = [0, 0], RiseTime, SettlingTime, Overshoot, Peak, PeakTime all
\* NaN) iff Kp = Ki = Kd = 0; then it is a normal return and the only call
\* made is get_pid_controller (no feedback, no poles, no simulation); with a
\* nonzero gain the closed loop is formed.
ThmC15 ==
    StepCall =>
        LET steps == args[3]
        IN  /\ (Returned /\ IsDegenerate(out.value)) <=> AllZeroGains(args[2])
            /\ AllZeroGains(args[2]) =>
                  Returned /\ steps = <<"get_pid_controller">> /\ args[4] = NoPoles
            /\ ~AllZeroGains(args[2]) =>
                  /\ Len(steps) >= 2 /\ steps[2] = "feedback"
                  /\ Returned => Len(out.value.time) = Samples

\* C15 witness: all-zero gains gave the degenerate result.
WitC15 ==
    /\ StepCall /\ args[2] = [Kp |-> Zero, Ki |-> Zero, Kd |-> Zero]
    /\ Returned /\ IsDegenerate(out.value)

Qualifies(p) == { i \in 1..Len(p.re) : RLt(p.re[i], Rat(-1, 1000000)) }

\* C16: when analyze_step_response chooses a horizon, T_final = 10/r with r
\* the smallest |Re p| over the closed-loop poles with Re p < -1e-6 if there
\* is such a pole, and T_final = 50 if the pole set is empty, if no pole
\* qualifies or if pole extraction raised; so 0 < T_final <= 10^7, and it is
\* the last sample time of the result.
ThmC16 ==
    (StepCall /\ Len(args[3]) >= 3) =>
        LET p == args[4]
            T == args[5]
        IN  /\ args[3][3] = "poles"
            /\ (p.tag = "poles" /\ Qualifies(p) /= {}) =>
                  \E i \in Qualifies(p) :
                      /\ \A j \in Qualifies(p) : RLe(RAbs(p.re[i]), RAbs(p.re[j]))
                      /\ T = RDiv(FromInt(10), RAbs(p.re[i]))
            /\ (p.tag = "raise" \/ Len(p.re) = 0 \/ Qualifies(p) = {}) => T = FromInt(50)
            /\ RLt(Zero, T) /\ RLe(T, FromInt(10000000))
            /\ Returned => out.value.time[Len(out.value.time)] = T

\* C16 witness: a pole at -5e-7 and the others at -2 gave T_final = 5.
WitC16 ==
    /\ StepCall /\ Returned /\ args[4].tag = "poles" /\ Len(args[4].re) >= 2
    /\ args[4].re[1] = Rat(-1, 2000000) /\ args[4].re[2] = FromInt(-2)
    /\ args[5] = FromInt(5)

Increasing(t) == \A i \in 1..(Len(t) - 1) : RLt(t[i], t[i + 1])
TakesNaNBranch(r) == Len(r.time) /= Len(r.output) \/ Len(r.time) < 2

\* C17 (the simulator's results): every result returned by
\* analyze_step_response has a strictly increasing time sequence starting
\* at 0 and an output of the same length: the 1500 samples
\* (i-1)*T_final/1499 in the normal case, 2 samples in the zero-controller
\* case; so calculate_performance_indices on it does not take its all-NaN
\* branch, and on the zero-controller result with setpoint 1 it yields
\* IAE = 1, ISE = 1, ITAE = 1/2, ITSE = 1/2.
ThmC17 ==
    /\ (StepCall /\ Returned) =>
        LET r == out.value
            n == Len(out.value.time)
        IN  /\ r.time[1] = Zero
            /\ Increasing(r.time)
            /\ Len(r.output) = n
            /\ ~TakesNaNBranch(r)
            /\ IF AllZeroGains(args[2])
                  THEN /\ n = 2
                       /\ calculate_performance_indices(r.time, r.output, One)
                            = Return([IAE |-> One, ISE |-> One,
                                      ITAE |-> Rat(1, 2), ITSE |-> Rat(1, 2)])
                  ELSE /\ n = 1500
                       /\ r.time[n] = args[5]
                       /\ \A i \in 1..n : r.time[i] = RMul(Rat(i - 1, 1499), args[5])
    /\ (fn = "pipeline" /\ "step_response_data" \in DOMAIN out.env) =>
        LET r == out.env.step_response_data
        IN  /\ r.time[1] = Zero
            /\ Increasing(r.time)
            /\ Len(r.output) = Len(r.time)
            /\ ~TakesNaNBranch(r)

\* C17 witness: a normal run returned 1500 samples up to T_final = 50.
WitC17 ==
    /\ StepCall /\ Returned /\ ~AllZeroGains(args[2])
    /\ Len(out.value.time) = 1500 /\ Len(out.value.output) = 1500
    /\ out.value.time[1500] = FromInt(50)

(***************************************************************************)
(* The pipeline                                                            *)
(***************************************************************************)
PipelineRun == fn = "pipeline"
Order ==
    <<"build_plant", "synthesize_gains", "simulate", "indices", "margins",
      "display", "export">>
Bindings == <<"system", "pid_params", "step_response_data", "indices", "margins">>

\* the steps a run has completed: its trace without the final st.error
Completed(st) ==
    IF st.pc = "error" THEN SubSeq(st.trace, 1, Len(st.trace) - 1) ELSE st.trace

PcAfter(k) == IF k < Len(Order) THEN Order[k + 1] ELSE "done"
BoundAfter(k) == { Bindings[i] : i \in 1..(IF k < 5 THEN k ELSE 5) }

\* the steps done are a prefix of Order, and exactly their results are bound
InOrder ==
    PipelineRun =>
        LET k == Len(Completed(out))
        IN  /\ k <= Len(Order)
            /\ Completed(out) = SubSeq(Order, 1, k)
            /\ DOMAIN out.env = BoundAfter(k)
            /\ IF out.pc = "error"
                  THEN /\ out.trace[Len(out.trace)] = "st.error"
                       /\ out.message /= ""
                  ELSE /\ out.pc = PcAfter(k)
                       /\ out.message = ""

RuleFails(inputs, system) ==
    \A o \in synthesize_gains(inputs, system) : o.tag = "raise"

\* a failure of the plant or of the rule leaves nothing bound after it, and
\* gains that are bound are gains the rule returned
FailurePropagates ==
    PipelineRun =>
        LET plant == build_plant(args[1])
        IN  /\ plant.tag = "raise" =>
                /\ out.pc \in {"build_plant", "error"}
                /\ out.env = <<>>
                /\ out.pc = "error" => out.trace = <<"st.error">>
            /\ (plant.tag = "return" /\ RuleFails(args[1], plant.value)) =>
                /\ out.pc \in {"build_plant", "synthesize_gains", "error"}
                /\ "pid_params" \notin DOMAIN out.env
                /\ out.pc = "error" => out.trace = <<"build_plant", "st.error">>
            /\ "system" \in DOMAIN out.env => Return(out.env.system) = plant
            /\ "pid_params" \in DOMAIN out.env =>
                Return(out.env.pid_params) \in synthesize_gains(args[1], out.env.system)

\* one step of a run: the next step of Order is done, or st.error ends the
\* run with nothing more bound; a run that is done or in error does not move
StepInOrder ==
    /\ PipelineRun =>
        /\ out.pc \notin {"done", "error"}
        /\ fn' = fn /\ args' = args
        /\ \/ /\ out'.pc = "error"
              /\ out'.env = out.env
              /\ out'.trace = Append(out.trace, "st.error")
           \/ /\ out'.pc = PcAfter(Len(out.trace) + 1)
              /\ out'.trace = Append(out.trace, out.pc)
    /\ (~PipelineRun /\ fn' = "pipeline") =>
        /\ out'.pc = "build_plant" /\ out'.trace = <<>> /\ out'.env = <<>>

=============================================================================
